---- MODULE Spec2Model ----
(***************************************************************************)
(* A model of simple-offline-rag (src/src/app/rag_pipeline.py): the corpus *)
(* chunker, the TF-IDF index, the two answer synthesizers and the pipeline *)
(* that wires them.  Texts are sequences of one-character strings.         *)
(***************************************************************************)
EXTENDS Integers, Sequences, FiniteSets, TLC

VARIABLES
    chunk_size,         \* LocalCorpus.chunk_size
    chunk_overlap,      \* LocalCorpus.chunk_overlap
    max_context_chars,  \* OfflineAnswerer.max_context_chars
    answerer,           \* RAGPipeline.answerer: "none" until constructed
    vectorizer,         \* TfidfIndex.vectorizer
    matrix,             \* TfidfIndex.matrix
    chunks,             \* TfidfIndex.chunks
    lastBuild,          \* history: outcome of the most recent build of the index
    everBuilt,          \* history: whether a build of this index has completed
    last                \* the most recent call: its inputs and what it returned or raised

vars == <<chunk_size, chunk_overlap, max_context_chars, answerer,
          vectorizer, matrix, chunks, lastBuild, everBuilt, last>>

\* ------------------------------------------------------------ characters

\* An optional value is a sequence of no element (None) or of one.
None == <<>>
Some(x) == <<x>>
Value(opt) == opt[1]

\* the entry of a name that is not in the directory
NoFile == None

Whitespace == {" ", "\n"}
SentenceEnd == {".", "!", "?"}

IsSpace(c) == c \in Whitespace

\* \w of the regular expressions: here letters only
IsWord(c) == c \notin Whitespace /\ c \notin SentenceEnd

\* str.lower() on one character
Lower(c) == IF c = "A" THEN "a" ELSE IF c = "R" THEN "r" ELSE c

Max(a, b) == IF a >= b THEN a ELSE b
Min(a, b) == IF a <= b THEN a ELSE b

\* Python's seq[lo:hi] for 0 <= lo, on a sequence (0-based, hi exclusive, cut at the end)
Slice(s, lo, hi) == SubSeq(s, lo + 1, Min(hi, Len(s)))

\* str.strip(): leading and trailing whitespace removed
RECURSIVE LStrip(_)
LStrip(t) == IF t # <<>> /\ IsSpace(Head(t)) THEN LStrip(Tail(t)) ELSE t

RECURSIVE RStrip(_)
RStrip(t) ==
    IF t # <<>> /\ IsSpace(t[Len(t)]) THEN RStrip(SubSeq(t, 1, Len(t) - 1)) ELSE t

Strip(t) == RStrip(LStrip(t))

\* re.sub(r"\s+", " ", text): every whitespace run becomes one space
RECURSIVE CollapseSpaces(_)
CollapseSpaces(t) ==
    IF t = <<>> THEN <<>>
    ELSE IF IsSpace(Head(t))
         THEN <<" ">> \o CollapseSpaces(LStrip(t))
         ELSE <<Head(t)>> \o CollapseSpaces(Tail(t))

\* ------------------------------------------------------------ LocalCorpus

DefaultChunkSize == 600
DefaultChunkOverlap == 80

Chunk(doc, i, text) == [doc_id |-> doc, chunk_id |-> i, text |-> text]

\* (mutant) windows laid end to end, the overlap forgotten
StrideIgnoringOverlap(size, overlap) == Max(1, size)

Stride(size, overlap) == Max(1, size - overlap)

\* range(0, n, step) as a sequence
RECURSIVE RangeFrom(_, _, _)
RangeFrom(i, n, step) ==
    IF i >= n THEN <<>> ELSE <<i>> \o RangeFrom(i + step, n, step)

SplitText(text, size, overlap) ==
    LET t == Strip(CollapseSpaces(text))
        starts == RangeFrom(0, Len(t), Stride(size, overlap))
    IN  IF t = <<>> THEN <<>>
        ELSE [j \in 1..Len(starts) |-> Slice(t, starts[j], starts[j] + size)]

\* A directory maps each file name to its text, or to NoFile.
FileNames ==
    { [stem |-> "a", suffix |-> "txt"],
      [stem |-> "b", suffix |-> "txt"],
      [stem |-> "c", suffix |-> "txt"],
      [stem |-> "n", suffix |-> "md"] }

\* (mutant) a glob that takes every file of the directory
GlobEveryFile(d) == {p \in FileNames : d[p] # NoFile}

\* data_dir.glob("*.txt")
Glob(d) == {p \in FileNames : d[p] # NoFile /\ p.suffix = "txt"}

\* p.read_text(...)
ReadText(d, p) == Value(d[p])

NameRank(p) ==
    CASE p.stem = "a" -> 1 [] p.stem = "b" -> 2 [] p.stem = "c" -> 3 [] OTHER -> 4

\* sorted(paths)
RECURSIVE SortedPaths(_)
SortedPaths(S) ==
    IF S = {} THEN <<>>
    ELSE LET p == CHOOSE x \in S : \A y \in S : NameRank(x) <= NameRank(y)
         IN  <<p>> \o SortedPaths(S \ {p})

FileChunks(d, p, size, overlap) ==
    LET parts == SplitText(ReadText(d, p), size, overlap)
    IN  [i \in 1..Len(parts) |-> Chunk(p, i - 1, parts[i])]

RECURSIVE LoadPaths(_, _, _, _)
LoadPaths(d, paths, size, overlap) ==
    IF paths = <<>> THEN <<>>
    ELSE FileChunks(d, Head(paths), size, overlap)
             \o LoadPaths(d, Tail(paths), size, overlap)

\* LocalCorpus.load: it has no failure of its own
Load(d, size, overlap) ==
    [outcome |-> "ok", chunks |-> LoadPaths(d, SortedPaths(Glob(d)), size, overlap)]

\* ------------------------------------------------------------ TfidfIndex

MaxScore == 2

\* maximal runs of word characters, lowercased: re.findall(r"\w+", text.lower())
RECURSIVE WordRuns(_, _)
WordRuns(t, cur) ==
    IF t = <<>> THEN (IF cur = <<>> THEN <<>> ELSE <<cur>>)
    ELSE IF IsWord(Head(t))
         THEN WordRuns(Tail(t), Append(cur, Lower(Head(t))))
         ELSE (IF cur = <<>> THEN <<>> ELSE <<cur>>) \o WordRuns(Tail(t), <<>>)

IsToken(w) == Len(w) >= 2

\* TfidfVectorizer's analyzer: lowercase, tokens of two or more word characters
\* (token_pattern r"(?u)\b\w\w+\b"), then the 1-grams and 2-grams (ngram_range=(1, 2))
Tokens(text) == SelectSeq(WordRuns(text, <<>>), IsToken)

Ngrams(text) ==
    LET toks == Tokens(text)
    IN  IF Len(toks) < 2 THEN toks
        ELSE toks \o [i \in 1..(Len(toks) - 1) |-> toks[i] \o <<" ">> \o toks[i + 1]]

Range(s) == {s[i] : i \in 1..Len(s)}

TermCount(term, grams) == Cardinality({i \in 1..Len(grams) : grams[i] = term})

\* the row of term counts of one document, given its n-grams, over a vocabulary
CountRow(vocab, grams) == [t \in vocab |-> TermCount(t, grams)]

\* document frequency of a term, given the n-grams of every document
DocFreq(term, grams) == Cardinality({i \in 1..Len(grams) : term \in Range(grams[i])})

\* max_df=0.9 as a proportion: a term is kept when df <= 0.9 * n_doc
WithinMaxDf(df, n) == 10 * df <= 9 * n

\* min_df=1 as a count against max_df * n_doc: "max_df corresponds to < documents than min_df"
MaxDfBelowMinDf(n) == 9 * n < 10 * 1

Unfitted == Some([fitted |-> FALSE, vocab |-> {}])

\* TfidfVectorizer(ngram_range=(1, 2), min_df=1, max_df=0.9).fit_transform(docs):
\* the fitted vectorizer and the matrix, or the ValueError of an empty or fully
\* pruned vocabulary, which leaves the vectorizer unfitted
FitTransform(docs) ==
    LET grams == [i \in 1..Len(docs) |-> Ngrams(docs[i])]
        all == UNION {Range(grams[i]) : i \in 1..Len(docs)}
        kept == {t \in all : WithinMaxDf(DocFreq(t, grams), Len(docs))}
    IN  IF all = {} \/ MaxDfBelowMinDf(Len(docs)) \/ kept = {}
        THEN [outcome |-> "ValueError", vectorizer |-> Unfitted, matrix |-> None]
        ELSE [outcome |-> "ok",
              vectorizer |-> Some([fitted |-> TRUE, vocab |-> kept]),
              matrix |-> Some([i \in 1..Len(docs) |-> CountRow(kept, grams[i])])]

\* TfidfIndex.build: the three assignments in the code's order; a failing fit
\* leaves the new chunk list and the new, unfitted vectorizer beside the old matrix
IndexBuildResult(cs, oldMatrix) ==
    LET fit == FitTransform([i \in 1..Len(cs) |-> cs[i].text])
    IN  [outcome |-> fit.outcome,
         chunks |-> cs,
         vectorizer |-> fit.vectorizer,
         matrix |-> IF fit.outcome = "ok" THEN fit.matrix ELSE oldMatrix]

\* whether the query vector and a matrix row share a term of the vocabulary
SharesTerm(qrow, row) == \E t \in DOMAIN row : t \in DOMAIN qrow /\ qrow[t] > 0 /\ row[t] > 0

\* cosine_similarity(qv, matrix)[0]. The weights are positive reals, so a score is 0
\* exactly when the row shares no term with the query; a positive score is one of the
\* levels 1..MaxScore, and equal rows score equally.
Similarities(vec, mat, query) ==
    LET qrow == CountRow(vec.vocab, Ngrams(query))
    IN  {s \in [1..Len(mat) -> 0..MaxScore] :
            /\ \A i \in 1..Len(mat) : (s[i] > 0) <=> SharesTerm(qrow, mat[i])
            /\ \A i, j \in 1..Len(mat) : mat[i] = mat[j] => s[i] = s[j]}

Orderings(n) ==
    {p \in [1..n -> 1..n] : \A i, j \in 1..n : i # j => p[i] # p[j]}

\* np.argsort(keys) with the default kind, which is not a stable sort: any
\* permutation that puts the keys in non-decreasing order
ArgSort(keys) ==
    {p \in Orderings(Len(keys)) :
        \A i \in 1..(Len(keys) - 1) : keys[p[i]] <= keys[p[i + 1]]}

\* (mutant) a slice that runs one element too far
TakeOneMore(s, k) == SubSeq(s, 1, Min(k + 1, Len(s)))

\* Python's seq[:k]
Take(s, k) ==
    IF k >= 0 THEN SubSeq(s, 1, Min(k, Len(s))) ELSE SubSeq(s, 1, Max(0, Len(s) + k))

Hit(c, score) == [chunk |-> c, score |-> score]

\* (mutant) an assertion that looks at the vectorizer alone
IsBuiltVectorizerOnly(vec, mat) == vec # None

\* the assertion that opens TfidfIndex.search
IsBuilt(vec, mat) == vec # None /\ mat # None

\* whether search gets as far as scoring: the assertion holds and transform
\* finds a fitted vectorizer
CanScore(vec, mat) == IsBuilt(vec, mat) /\ Value(vec).fitted

\* the score vectors a search may compute, and the orders argsort may return for one
ScoreChoices(vec, mat, query) ==
    IF CanScore(vec, mat) THEN Similarities(Value(vec), Value(mat), query) ELSE {<<>>}

\* (mutant) argsort of the scores themselves, ascending
OrderChoicesAscending(sims) == ArgSort(sims)

OrderChoices(sims) == ArgSort([i \in 1..Len(sims) |-> 0 - sims[i]])

\* TfidfIndex.search, given the scores and the order argsort returned
Search(vec, mat, cs, k, sims, order) ==
    IF ~IsBuilt(vec, mat) THEN [outcome |-> "NotBuilt", hits |-> <<>>]
    ELSE IF ~Value(vec).fitted THEN [outcome |-> "NotFittedError", hits |-> <<>>]
    ELSE LET idxs == Take(order, k)
         IN  IF \E i \in 1..Len(idxs) : idxs[i] > Len(cs)
             THEN [outcome |-> "IndexError", hits |-> <<>>]
             ELSE [outcome |-> "ok",
                   hits |-> [i \in 1..Len(idxs) |-> Hit(cs[idxs[i]], sims[idxs[i]])]]

\* ------------------------------------------------------------ OfflineAnswerer

DefaultMaxContextChars == 2000
MaxBullets == 5

\* the position of the first non-whitespace character at or after i, or Len(t) + 1
RECURSIVE SkipSpaces(_, _)
SkipSpaces(t, i) == IF i <= Len(t) /\ IsSpace(t[i]) THEN SkipSpaces(t, i + 1) ELSE i

\* re.split(r"(?<=[.!?])\s+", t): cut at each whitespace run that follows . ! or ?
RECURSIVE SplitSentencesFrom(_, _, _)
SplitSentencesFrom(t, i, cur) ==
    IF i > Len(t) THEN <<cur>>
    ELSE IF IsSpace(t[i]) /\ i > 1 /\ t[i - 1] \in SentenceEnd
         THEN <<cur>> \o SplitSentencesFrom(t, SkipSpaces(t, i), <<>>)
         ELSE SplitSentencesFrom(t, i + 1, Append(cur, t[i]))

SplitSentences(t) == SplitSentencesFrom(t, 1, <<>>)

\* Python's "s in t" on strings
IsSubstring(s, t) == \E i \in 0..(Len(t) - Len(s)) : SubSeq(t, i + 1, i + Len(s)) = s

\* set(re.findall(r"\w+", text.lower()))
WordSet(text) == Range(WordRuns(text, <<>>))

\* max(1, round(0.2 * max(n, 1))): 0.2 * n is never half-way, so round is
\* floor(0.2 * n + 0.5)
OverlapThreshold(n) == Max(1, (2 * Max(n, 1) + 5) \div 10)

MeetsThreshold(terms, sent) ==
    Cardinality(terms \cap WordSet(sent)) >= OverlapThreshold(Cardinality(terms))

\* the loop that fills the context buffer: whole chunk texts, until one would overflow
RECURSIVE BuildContext(_, _, _, _)
BuildContext(hits, context, chosen, maxChars) ==
    IF hits = <<>> THEN [context |-> context, chosen |-> chosen]
    ELSE LET snippet == Strip(Head(hits).chunk.text)
         IN  IF Len(context) + Len(snippet) + 1 > maxChars
             THEN [context |-> context, chosen |-> chosen]
             ELSE BuildContext(Tail(hits),
                               context \o (IF context # <<>> THEN <<"\n">> ELSE <<>>) \o snippet,
                               Append(chosen, Head(hits)),
                               maxChars)

Bullet(sent, c) == [sent |-> sent, doc_id |-> c.doc_id, chunk_id |-> c.chunk_id]

\* the first chosen chunk whose text contains the sentence, as a list of 0 or 1 bullets
RECURSIVE Attribute(_, _)
Attribute(sent, chosen) ==
    IF chosen = <<>> THEN <<>>
    ELSE IF Strip(sent) # <<>> /\ IsSubstring(Strip(sent), Head(chosen).chunk.text)
         THEN <<Bullet(Strip(sent), Head(chosen).chunk)>>
         ELSE Attribute(sent, Tail(chosen))

RECURSIVE PickSentences(_, _, _)
PickSentences(sentences, terms, chosen) ==
    IF sentences = <<>> THEN <<>>
    ELSE (IF MeetsThreshold(terms, Head(sentences))
          THEN Attribute(Head(sentences), chosen) ELSE <<>>)
         \o PickSentences(Tail(sentences), terms, chosen)

\* the fallback of OfflineAnswerer.answer: chosen[0], which does not exist when
\* the first hit alone overflowed the buffer
FallbackTop(hits, chosen) == IF chosen = <<>> THEN None ELSE Some(chosen[1].chunk)

\* OfflineAnswerer.answer
OfflineAnswer(query, hits, maxChars) ==
    IF hits = <<>>
    THEN [outcome |-> "ok", kind |-> "nothing", lines |-> <<>>, posts |-> 0]
    ELSE LET ctx == BuildContext(hits, <<>>, <<>>, maxChars)
             picked == PickSentences(SplitSentences(ctx.context), WordSet(query), ctx.chosen)
             top == FallbackTop(hits, ctx.chosen)
         IN  IF picked # <<>>
             THEN [outcome |-> "ok", kind |-> "bullets",
                   lines |-> Take(picked, MaxBullets), posts |-> 0]
             ELSE IF top = None
             THEN [outcome |-> "IndexError", kind |-> "none", lines |-> <<>>, posts |-> 0]
             ELSE [outcome |-> "ok", kind |-> "bullets",
                   lines |-> <<Bullet(SplitSentences(Strip(Value(top).text))[1], Value(top))>>,
                   posts |-> 0]

\* ------------------------------------------------------------ OpenAIAnswerer

\* what the one POST can come to: a completion, a transport failure or timeout,
\* a non-success status (raise_for_status), a body without choices
HttpOutcomes == {"ok", "TransportError", "HTTPStatusError", "KeyError"}

\* the external calls a variant makes: only the delegated one makes any
HttpCalls(variant) == IF variant = "openai" THEN HttpOutcomes ELSE {"none"}

\* (mutant) a delegated answerer that degrades to the local one when the call fails
OpenAIAnswerWithFallback(query, hits, http) ==
    IF http = "ok"
    THEN [outcome |-> "ok", kind |-> "remote", lines |-> <<>>, posts |-> 1]
    ELSE [OfflineAnswer(query, hits, DefaultMaxContextChars) EXCEPT !.posts = 1]

\* OpenAIAnswerer.answer: one request, whose failure is raised as it is
OpenAIAnswer(query, hits, http) ==
    IF http = "ok"
    THEN [outcome |-> "ok", kind |-> "remote", lines |-> <<>>, posts |-> 1]
    ELSE [outcome |-> http, kind |-> "none", lines |-> <<>>, posts |-> 1]

\* ------------------------------------------------------------ RAGPipeline

PreviewChars == 160

Source(h) ==
    [doc |-> h.chunk.doc_id, chunk |-> h.chunk.chunk_id, score |-> h.score,
     preview |-> Slice(h.chunk.text, 0, PreviewChars)]

\* self.answerer.answer(q, hits) of the variant chosen at construction
Synthesize(variant, query, hits, maxChars, http) ==
    IF variant = "openai" THEN OpenAIAnswer(query, hits, http)
    ELSE OfflineAnswer(query, hits, maxChars)

\* RAGPipeline.query on one search result: the answer, then the sources
QueryResult(variant, query, found, maxChars, http) ==
    IF found.outcome # "ok"
    THEN [outcome |-> found.outcome, hits |-> <<>>, kind |-> "none", lines |-> <<>>,
          sources |-> <<>>, posts |-> 0]
    ELSE LET ans == Synthesize(variant, query, found.hits, maxChars, http)
         IN  IF ans.outcome # "ok"
             THEN [outcome |-> ans.outcome, hits |-> <<>>, kind |-> "none", lines |-> <<>>,
                   sources |-> <<>>, posts |-> ans.posts]
             ELSE [outcome |-> "ok", hits |-> found.hits, kind |-> ans.kind,
                   lines |-> ans.lines,
                   sources |-> [i \in 1..Len(found.hits) |-> Source(found.hits[i])],
                   posts |-> ans.posts]

\* RAGPipeline.build on what load returned: the index as it is left
BuildResult(loaded, oldVec, oldMatrix, oldChunks) ==
    IF loaded.outcome # "ok"
    THEN [outcome |-> loaded.outcome, chunks |-> oldChunks, vectorizer |-> oldVec,
          matrix |-> oldMatrix]
    ELSE IF loaded.chunks = <<>>
    THEN [outcome |-> "EmptyCorpusError", chunks |-> oldChunks, vectorizer |-> oldVec,
          matrix |-> oldMatrix]
    ELSE IndexBuildResult(loaded.chunks, oldMatrix)

\* ------------------------------------------------------------ inputs

MaxK == 3
MaxChunkSize == 3

\* "Rag ab. cd ef."
TextRag == <<"R", "a", "g", " ", "a", "b", ".", " ", "c", "d", " ", "e", "f", ".">>
\* "gh ab ij."
TextTfidf == <<"g", "h", " ", "a", "b", " ", "i", "j", ".">>
\* "x y.": no word of two characters, so no term for the vectorizer
TextShort == <<"x", " ", "y", ".">>
\* whitespace only
TextBlank == <<" ", "\n">>
\* " ab \n c "
TextSpaced == <<" ", "a", "b", " ", "\n", " ", "c", " ">>
\* "abcdefg"
TextLong == <<"a", "b", "c", "d", "e", "f", "g">>

FileA == [stem |-> "a", suffix |-> "txt"]
FileB == [stem |-> "b", suffix |-> "txt"]
FileC == [stem |-> "c", suffix |-> "txt"]
FileN == [stem |-> "n", suffix |-> "md"]

Dir(a, b, c, n) == (FileA :> a) @@ (FileB :> b) @@ (FileC :> c) @@ (FileN :> n)

\* the corpus directories a pipeline build may find
PipelineDirs ==
    { Dir(NoFile, NoFile, NoFile, Some(TextRag)),                    \* no .txt file
      Dir(Some(TextBlank), NoFile, NoFile, NoFile),                  \* a blank .txt file
      Dir(Some(TextRag), NoFile, NoFile, NoFile),                    \* one chunk
      Dir(Some(TextRag), Some(TextRag), NoFile, NoFile),             \* two equal chunks
      Dir(Some(TextRag), Some(TextTfidf), NoFile, Some(TextRag)),    \* two chunks
      Dir(Some(TextRag), Some(TextTfidf), Some(TextShort), NoFile),  \* three chunks
      Dir(Some(TextRag), Some(TextRag), Some(TextShort), NoFile) }   \* three, two equal

\* the corpus directories of a LocalCorpus with a small window
CorpusDirs ==
    { Dir(a, b, NoFile, n) :
        a \in {NoFile, Some(TextSpaced), Some(TextLong), Some(TextBlank), Some(<<>>),
               Some(TextShort)},
        b \in {NoFile, Some(TextShort), Some(TextBlank)},
        n \in {NoFile, Some(TextLong)} }

\* "Rag?", "zz", "Ab x", "" and a query of eight terms, "ab cd ef gh ij x y zz"
QueryRag == <<"R", "a", "g", "?">>
QueryMiss == <<"z", "z">>
QueryMixed == <<"A", "b", " ", "x">>
QueryEight ==
    <<"a", "b", " ", "c", "d", " ", "e", "f", " ", "g", "h", " ", "i", "j", " ",
      "x", " ", "y", " ", "z", "z">>

Queries == {QueryMiss, QueryMixed}
AnswerQueries == {QueryRag, QueryMiss, QueryMixed, QueryEight, <<>>}

KRange == 0..MaxK

ContextBudgets == {4, 10, DefaultMaxContextChars}

AnswerChunks ==
    { Chunk(FileA, 0, TextRag), Chunk(FileB, 0, TextTfidf), Chunk(FileC, 1, TextShort) }

\* hit lists handed to an answerer directly: up to two hits
AnswerHits ==
    {<<>>} \cup { <<Hit(c, 1)>> : c \in AnswerChunks }
           \cup { <<Hit(c, 1), Hit(d, 0)>> : c \in AnswerChunks, d \in AnswerChunks }

\* ------------------------------------------------------------ state

NoCall ==
    [op |-> "none", outcome |-> "none", query |-> <<>>, k |-> 0, hits |-> <<>>,
     kind |-> "none", lines |-> <<>>, sources |-> <<>>, posts |-> 0,
     dir |-> Dir(NoFile, NoFile, NoFile, NoFile), loaded |-> <<>>,
     use_openai |-> FALSE, credential |-> FALSE, http |-> "none"]

Call(op, outcome) == [NoCall EXCEPT !.op = op, !.outcome = outcome]

QueryCall(op, query, k, http, r) ==
    [NoCall EXCEPT !.op = op, !.outcome = r.outcome, !.query = query, !.k = k,
                   !.http = http,
                   !.hits = r.hits, !.kind = r.kind, !.lines = r.lines,
                   !.sources = r.sources, !.posts = r.posts]

\* the process before RAGPipeline(...) is called; TfidfIndex() as constructed
Init ==
    /\ chunk_size = DefaultChunkSize
    /\ chunk_overlap = DefaultChunkOverlap
    /\ max_context_chars = DefaultMaxContextChars
    /\ answerer = "none"
    /\ vectorizer = None
    /\ matrix = None
    /\ chunks = <<>>
    /\ lastBuild = "none"
    /\ everBuilt = FALSE
    /\ last = NoCall

\* OpenAIAnswerer.__init__ raises when the key is absent
ConstructOutcome(use_openai, cred) ==
    IF use_openai /\ ~cred THEN "RuntimeError" ELSE "ok"

\* RAGPipeline.__init__, with OPENAI_API_KEY set in the environment or not
Construct(use_openai, cred) ==
    /\ answerer = "none"
    /\ LET outcome == ConstructOutcome(use_openai, cred)
       IN  /\ answerer' = IF outcome # "ok" THEN "none"
                          ELSE IF use_openai THEN "openai" ELSE "offline"
           /\ last' = [NoCall EXCEPT !.op = "construct", !.outcome = outcome,
                                     !.use_openai = use_openai, !.credential = cred]
    /\ vectorizer' = None
    /\ matrix' = None
    /\ chunks' = <<>>
    /\ lastBuild' = "none"
    /\ everBuilt' = FALSE
    /\ UNCHANGED <<chunk_size, chunk_overlap, max_context_chars>>

\* RAGPipeline.build() with the data directory as it is found
Build(d) ==
    /\ answerer # "none"
    /\ \E r \in {BuildResult(Load(d, chunk_size, chunk_overlap), vectorizer, matrix, chunks)} :
           /\ chunks' = r.chunks
           /\ vectorizer' = r.vectorizer
           /\ matrix' = r.matrix
           /\ lastBuild' = r.outcome
           /\ everBuilt' = (everBuilt \/ r.outcome = "ok")
           /\ last' = Call("build", r.outcome)
    /\ UNCHANGED <<chunk_size, chunk_overlap, max_context_chars, answerer>>

\* RAGPipeline.query(q, k)
Query(q, k) ==
    /\ answerer # "none"
    /\ \E sims \in ScoreChoices(vectorizer, matrix, q) :
       \E order \in OrderChoices(sims) :
       \E http \in HttpCalls(answerer) :
       \E found \in {Search(vectorizer, matrix, chunks, k, sims, order)} :
       \E r \in {QueryResult(answerer, q, found, max_context_chars, http)} :
          last' = QueryCall("query", q, k, http, r)
    /\ UNCHANGED <<chunk_size, chunk_overlap, max_context_chars, answerer, vectorizer,
                   matrix, chunks, lastBuild, everBuilt>>

\* TfidfIndex.build(chunks) called on the index itself, with whatever load returned
IndexBuild(d) ==
    /\ \E r \in {IndexBuildResult(Load(d, chunk_size, chunk_overlap).chunks, matrix)} :
           /\ chunks' = r.chunks
           /\ vectorizer' = r.vectorizer
           /\ matrix' = r.matrix
           /\ lastBuild' = r.outcome
           /\ everBuilt' = (everBuilt \/ r.outcome = "ok")
           /\ last' = Call("index_build", r.outcome)
    /\ UNCHANGED <<chunk_size, chunk_overlap, max_context_chars, answerer>>

\* TfidfIndex.search(q, k) called on the index itself
IndexSearch(q, k) ==
    /\ \E sims \in ScoreChoices(vectorizer, matrix, q) :
       \E order \in OrderChoices(sims) :
       \E found \in {Search(vectorizer, matrix, chunks, k, sims, order)} :
          last' = [NoCall EXCEPT !.op = "search", !.outcome = found.outcome,
                                 !.query = q, !.k = k, !.hits = found.hits]
    /\ UNCHANGED <<chunk_size, chunk_overlap, max_context_chars, answerer, vectorizer,
                   matrix, chunks, lastBuild, everBuilt>>

Next ==
    \/ \E u \in BOOLEAN, cred \in BOOLEAN : Construct(u, cred)
    \/ \E d \in PipelineDirs : Build(d)
    \/ \E q \in Queries, k \in KRange : Query(q, k)
    \/ \E d \in PipelineDirs : IndexBuild(d)
    \/ \E q \in Queries, k \in KRange : IndexSearch(q, k)

Spec == Init /\ [][Next]_vars

\* ------------------------------------------------------------ LocalCorpus alone

\* LocalCorpus(data_dir, chunk_size, chunk_overlap) constructed with a small window
InitCorpus ==
    /\ chunk_size \in 1..MaxChunkSize
    /\ chunk_overlap \in (0 - 1)..MaxChunkSize
    /\ max_context_chars = DefaultMaxContextChars
    /\ answerer = "none"
    /\ vectorizer = None
    /\ matrix = None
    /\ chunks = <<>>
    /\ lastBuild = "none"
    /\ everBuilt = FALSE
    /\ last = NoCall

\* LocalCorpus.load() with the data directory as it is found
CorpusLoad(d) ==
    /\ \E r \in {Load(d, chunk_size, chunk_overlap)} :
           last' = [NoCall EXCEPT !.op = "load", !.outcome = r.outcome, !.dir = d,
                                  !.loaded = r.chunks]
    /\ UNCHANGED <<chunk_size, chunk_overlap, max_context_chars, answerer, vectorizer,
                   matrix, chunks, lastBuild, everBuilt>>

NextCorpus == \E d \in CorpusDirs : CorpusLoad(d)

SpecCorpus == InitCorpus /\ [][NextCorpus]_vars

\* ------------------------------------------------------------ OfflineAnswerer alone

\* OfflineAnswerer(max_context_chars) constructed on its own
InitAnswer ==
    /\ chunk_size = DefaultChunkSize
    /\ chunk_overlap = DefaultChunkOverlap
    /\ max_context_chars \in ContextBudgets
    /\ answerer = "offline"
    /\ vectorizer = None
    /\ matrix = None
    /\ chunks = <<>>
    /\ lastBuild = "none"
    /\ everBuilt = FALSE
    /\ last = NoCall

\* OfflineAnswerer.answer(query, hits) called directly
AnswerCall(q, hits) ==
    /\ \E r \in {OfflineAnswer(q, hits, max_context_chars)} :
           last' = [NoCall EXCEPT !.op = "answer", !.outcome = r.outcome, !.query = q,
                                  !.hits = hits, !.kind = r.kind, !.lines = r.lines]
    /\ UNCHANGED <<chunk_size, chunk_overlap, max_context_chars, answerer, vectorizer,
                   matrix, chunks, lastBuild, everBuilt>>

NextAnswer == \E q \in AnswerQueries, hits \in AnswerHits : AnswerCall(q, hits)

SpecAnswer == InitAnswer /\ [][NextAnswer]_vars

\* ------------------------------------------------------------ properties

IsSearch == last.op \in {"search", "query"}

HitChunks == {last.hits[i].chunk : i \in 1..Len(last.hits)}

\* C1: a search or query issued while no build of the index has completed, a
\* build that failed part-way included, ends in the not-built error with no hits.
C1_SearchBeforeBuildIsNotBuilt ==
    (IsSearch /\ ~everBuilt) =>
        /\ last.outcome = "NotBuilt"
        /\ last.hits = <<>>
        /\ last.sources = <<>>
        /\ last.kind = "none"

\* C1 witness: a search after a first build whose fitting failed
C1_Witness ==
    /\ last.op = "search"
    /\ lastBuild = "ValueError"
    /\ ~everBuilt
    /\ vectorizer # None
    /\ last.outcome = "NotBuilt"

\* C2 (as claimed): once build() has failed with the empty-corpus error, no query
\* on the pipeline returns a Query Result, whatever was built before.
C2_NoResultAfterEmptyCorpus ==
    (last.op = "query" /\ last.k > 0 /\ lastBuild = "EmptyCorpusError") => last.outcome # "ok"

\* C3: on a built index and for k > 0, search returns min(k, N) distinct chunks of
\* the index with non-increasing scores; with k >= N it returns every chunk, and
\* the query's sources name every document that produced a chunk.
C3_SearchReturnsTopK ==
    (IsSearch /\ last.k > 0 /\ lastBuild = "ok" /\ last.http \in {"none", "ok"}) =>
        /\ last.outcome = "ok"
        /\ Len(last.hits) = Min(last.k, Len(chunks))
        /\ HitChunks \subseteq Range(chunks)
        /\ \A i, j \in 1..Len(last.hits) : i # j => last.hits[i].chunk # last.hits[j].chunk
        /\ \A i \in 1..(Len(last.hits) - 1) : last.hits[i].score >= last.hits[i + 1].score
        /\ (last.k >= Len(chunks) => HitChunks = Range(chunks))
        /\ (last.op = "query" /\ last.k >= Len(chunks) =>
                {last.sources[i].doc : i \in 1..Len(last.sources)}
                    = {chunks[i].doc_id : i \in 1..Len(chunks)})

\* C3 witness: the test's case, k = 3 over the two chunks of a.txt and b.txt
C3_Witness ==
    /\ last.op = "query"
    /\ last.outcome = "ok"
    /\ last.k = 3
    /\ Len(chunks) = 2
    /\ Len(last.hits) = 2
    /\ \E i \in 1..Len(last.sources) : last.sources[i].doc = FileA

\* C4 (as claimed): a search or query with k = 0 ends in the not-built error, on
\* a built index too, and never in the "nothing relevant found" answer.
C4_ZeroKIsNotBuilt ==
    (IsSearch /\ last.k = 0) => (last.outcome = "NotBuilt" /\ last.kind # "nothing")

\* C4 (amended): with k = 0 the not-built error is the outcome only while no build
\* has completed; on a built index search returns an empty hit list, and an
\* offline query returns the "nothing relevant found" answer with no sources.
C4_ZeroKOnBuiltIndexIsEmpty ==
    (IsSearch /\ last.k = 0) =>
        /\ ~everBuilt => last.outcome = "NotBuilt"
        /\ lastBuild = "ok" =>
              /\ last.http \in {"none", "ok"} => (last.outcome = "ok" /\ last.hits = <<>>)
              /\ (last.op = "query" /\ answerer = "offline") =>
                    (last.kind = "nothing" /\ last.sources = <<>>)

\* C4 witness: an offline query with k = 0 on a built index
C4_Witness ==
    /\ last.op = "query"
    /\ last.k = 0
    /\ lastBuild = "ok"
    /\ answerer = "offline"
    /\ last.outcome = "ok"
    /\ last.kind = "nothing"

HttpFailures == HttpOutcomes \ {"ok"}

C5_CallOutcomes ==
    /\ (last.op = "construct" /\ last.use_openai /\ ~last.credential) =>
          /\ last.outcome = "RuntimeError"
          /\ answerer = "none"
          /\ vectorizer = None /\ matrix = None /\ chunks = <<>>
    /\ (last.op = "construct" /\ last.outcome = "ok") =>
          answerer = (IF last.use_openai THEN "openai" ELSE "offline")
    /\ (last.op = "query" /\ answerer = "openai" /\ lastBuild = "ok"
            /\ last.http \in HttpFailures) =>
          /\ last.posts = 1
          /\ last.outcome = last.http
          /\ last.kind = "none" /\ last.lines = <<>>
          /\ last.sources = <<>> /\ last.hits = <<>>
    /\ (last.op = "query" /\ answerer = "openai") =>
          (last.posts <= 1 /\ last.kind \in {"none", "remote"})
    /\ (last.op = "query" /\ answerer = "offline") =>
          (last.posts = 0 /\ last.kind # "remote")

\* C5: the synthesizer variant is fixed by the constructor, which fails at once when
\* the delegated variant lacks its credential, and no build or query changes it; a
\* failed external call fails the query after one request, with nothing substituted.
C5_VariantFixedNoFallback ==
    [](C5_CallOutcomes) /\ [][answerer # "none" => answerer' = answerer]_vars

\* C5 witness: a delegated query whose one request came back with a non-success status
C5_Witness ==
    /\ last.op = "query"
    /\ answerer = "openai"
    /\ lastBuild = "ok"
    /\ last.http = "HTTPStatusError"
    /\ last.posts = 1
    /\ last.outcome = "HTTPStatusError"

NoTextFile(d) == \A p \in FileNames : p.suffix = "txt" => d[p] = NoFile

\* C6 (as claimed): load fails with a not-found error when the directory holds no
\* .txt file.
C6_LoadFailsWithoutTextFiles ==
    (last.op = "load" /\ NoTextFile(last.dir)) => last.outcome = "NotFoundError"

\* C6 (amended): load on a directory with no .txt file returns normally, with an
\* empty chunk sequence.
C6_LoadReturnsEmptyWithoutTextFiles ==
    (last.op = "load" /\ NoTextFile(last.dir)) =>
        (last.outcome = "ok" /\ last.loaded = <<>>)

\* C6 witness: a load of a directory that holds a file, but no .txt file
C6_Witness ==
    /\ last.op = "load"
    /\ NoTextFile(last.dir)
    /\ last.dir[FileN] # NoFile
    /\ last.loaded = <<>>

\* C7 (as claimed): whenever the index holds a matrix, the vectorizer is the fitted
\* one and the matrix the one of a build of the chunk list it holds, a row per chunk.
C7_IndexStateFromOneBuild ==
    matrix # None =>
        LET fit == FitTransform([i \in 1..Len(chunks) |-> chunks[i].text])
        IN  /\ fit.outcome = "ok"
            /\ vectorizer = fit.vectorizer
            /\ matrix = fit.matrix
            /\ Len(Value(matrix)) = Len(chunks)

ChunkPosition(c) == CHOOSE n \in 1..Len(chunks) : chunks[n] = c

\* C8 (as claimed): hits of equal score come in the order of their chunks in the
\* list the index was built from.
C8_TiesKeepChunkOrder ==
    (IsSearch /\ last.outcome = "ok") =>
        \A i, j \in 1..Len(last.hits) :
            (i < j /\ last.hits[i].score = last.hits[j].score) =>
                ChunkPosition(last.hits[i].chunk) < ChunkPosition(last.hits[j].chunk)

NoSentenceMeetsThreshold ==
    LET ctx == BuildContext(last.hits, <<>>, <<>>, max_context_chars)
    IN  \A sent \in Range(SplitSentences(ctx.context)) :
            ~MeetsThreshold(WordSet(last.query), sent)

\* C9 (as claimed): when no sentence of the context meets the overlap threshold, the
\* answer is one bullet, the first sentence of the top hit, cited to the top hit;
\* also when the top hit alone is longer than max_context_chars.
C9_FallbackCitesTopHit ==
    (last.op = "answer" /\ last.hits # <<>> /\ NoSentenceMeetsThreshold) =>
        LET top == last.hits[1].chunk
        IN  /\ last.outcome = "ok"
            /\ last.lines = <<Bullet(SplitSentences(Strip(top.text))[1], top)>>

\* the windows of one file of the directory last loaded
WindowsOf(p, covering) ==
    LET text == Strip(CollapseSpaces(ReadText(last.dir, p)))
        IsOf(c) == c.doc_id = p
        cs == SelectSeq(last.loaded, IsOf)
        stride == IF chunk_size - chunk_overlap >= 1 THEN chunk_size - chunk_overlap ELSE 1
    IN  /\ (text = <<>>) <=> (cs = <<>>)
        /\ Len(cs) * stride >= Len(text)
        /\ \A i \in 1..Len(cs) :
              /\ cs[i].chunk_id = i - 1
              /\ (i - 1) * stride < Len(text)
              /\ cs[i].text = SubSeq(text, (i - 1) * stride + 1,
                                     Min((i - 1) * stride + chunk_size, Len(text)))
              /\ cs[i].text # <<>>
              /\ Len(cs[i].text) < chunk_size => (i - 1) * stride + chunk_size > Len(text)
        /\ covering =>
              \A pos \in 1..Len(text) :
                  \E i \in 1..Len(cs) :
                      (i - 1) * stride < pos /\ pos <= (i - 1) * stride + chunk_size

\* C10 (as claimed): for every chunk_size >= 1 and every chunk_overlap, the chunks of
\* a document are its windows at multiples of the stride, numbered from 0, and every
\* character lies in a chunk; the stride of the defaults is 520.
C10_WindowsCoverEveryText ==
    /\ Stride(DefaultChunkSize, DefaultChunkOverlap) = 520
    /\ last.op = "load" => \A p \in Glob(last.dir) : WindowsOf(p, TRUE)

\* C10 (amended): the same, with every character in a chunk when chunk_overlap >= 0.
C10_WindowsAtStride ==
    /\ Stride(DefaultChunkSize, DefaultChunkOverlap) = 520
    /\ last.op = "load" => \A p \in Glob(last.dir) : WindowsOf(p, chunk_overlap >= 0)

\* C10 witness: windows of 3 with overlap 1 over "abcdefg": four chunks, the last short
C10_Witness ==
    /\ last.op = "load"
    /\ chunk_size = 3 /\ chunk_overlap = 1
    /\ Len(last.loaded) = 4
    /\ last.loaded[2].text = <<"c", "d", "e">>
    /\ last.loaded[4].text = <<"g">>
    /\ last.loaded[4].chunk_id = 3

====
